---- MODULE Spec2Model ----
(***************************************************************************)
(* Verification model of the VLSI strip-packing tool chain:                *)
(*   - SMT/src/build_models_z3.py : build_SMTLIB_model and the z3 driver   *)
(*   - MIP/src/model.py           : run_mip_solver, compute_solution,      *)
(*                                  compute_tests                          *)
(*   - utils/solution_log.py      : print_logging                          *)
(* Items are numbered 1..N here; item k is the source's index k-1.         *)
(***************************************************************************)
EXTENDS Integers, Sequences, FiniteSets, TLC

\* ---------------------------------------------------------------- bounds
MaxW == 3
MaxN == 2
MaxDim == 2
PinwheelW == 4
PinwheelN == 5
PinwheelSlack == 1
MaxInstances == 2
MaxVars == 11
MaxTime == 1
MaxTimeout == 2

\* ------------------------------------------------------- SMT encoder state
VARIABLES W, N, widths, heights, lines, smt_pc, smt_model

smt_vars == <<W, N, widths, heights, lines, smt_pc, smt_model>>

\* ------------------------------------------------------ MIP front-end state
VARIABLES test_iterator, env, solver, model_type, statistics, stdout,
          mip_pc, exception, sol, prob, solved

mip_vars == <<test_iterator, env, solver, model_type, statistics, stdout,
              mip_pc, exception, sol, prob, solved>>

\* ---------------------------------------------------------- OMT driver state
VARIABLES lo, hi, best, elapsed, omt_pc

omt_vars == <<lo, hi, best, elapsed, omt_pc>>

vars == <<smt_vars, mip_vars, omt_vars>>

\* ------------------------------------------------------------- arithmetic
RECURSIVE SumSeq(_)
SumSeq(s) == IF s = <<>> THEN 0 ELSE Head(s) + SumSeq(Tail(s))

MinSeq(s) == CHOOSE v \in {s[k] : k \in DOMAIN s} : \A k \in DOMAIN s : v <= s[k]

MaxSeq(s) == CHOOSE v \in {s[k] : k \in DOMAIN s} : \A k \in DOMAIN s : v >= s[k]

\* math.ceil(a / b) for a >= 0, b > 0
CeilDiv(a, b) == (a + b - 1) \div b

Areas(ws, hs) == [k \in DOMAIN ws |-> ws[k] * hs[k]]

\* l_low = math.ceil(sum([widths[i]*heights[i] for i in range(N)]) / W)
LLow(w, ws, hs) == CeilDiv(SumSeq(Areas(ws, hs)), w)

LUpSucc(hs) == SumSeq(hs) + 1

\* l_up = sum(heights)
LUp(hs) == SumSeq(hs)

\* areas.index(max(areas)): the first item of maximum area
MaxAreaInd(ws, hs) ==
    LET areas == Areas(ws, hs)
    IN  CHOOSE k \in DOMAIN areas :
            /\ areas[k] = MaxSeq(areas)
            /\ \A m \in DOMAIN areas : areas[m] = MaxSeq(areas) => k <= m

\* ------------------------------------------------------ formula (assertions)
\* One assertion of the generated script: its kind, the items it names and
\* the numbers the f-string wrote into it.
Line(kind, i, j, p, ws, hs) ==
    [kind |-> kind, i |-> i, j |-> j, p |-> p, ws |-> ws, hs |-> hs]

\* Flatten a sequence of sequences.
RECURSIVE Concat(_)
Concat(ss) == IF ss = <<>> THEN <<>> ELSE Head(ss) \o Concat(Tail(ss))

\* The pairs (i, j), i < j, in the order of the nested loops.
Pairs(n) ==
    Concat([i \in 1..n |-> SelectSeq([j \in 1..n |-> <<i, j>>], LAMBDA q : q[1] < q[2])])

DomainLinesMaxH(w, n, ws, hs) ==
       [i \in 1..n |-> Line("dom_x", i, 0, <<0, w - MinSeq(ws)>>, <<>>, <<>>)]
    \o [i \in 1..n |-> Line("dom_y", i, 0, <<0, LUp(hs) - MaxSeq(hs)>>, <<>>, <<>>)]
    \o << Line("dom_l", 0, 0, <<LLow(w, ws, hs), LUp(hs)>>, <<>>, <<>>) >>

DomainLinesLUpSucc(w, n, ws, hs) ==
       [i \in 1..n |-> Line("dom_x", i, 0, <<0, w - MinSeq(ws)>>, <<>>, <<>>)]
    \o [i \in 1..n |-> Line("dom_y", i, 0, <<0, LUpSucc(hs) - MinSeq(hs)>>, <<>>, <<>>)]
    \o << Line("dom_l", 0, 0, <<LLow(w, ws, hs), LUpSucc(hs)>>, <<>>, <<>>) >>

\* (assert (and (>= coord_x{i} 0) (<= coord_x{i} {W-min(widths)}))) ...
DomainLines(w, n, ws, hs) ==
       [i \in 1..n |-> Line("dom_x", i, 0, <<0, w - MinSeq(ws)>>, <<>>, <<>>)]
    \o [i \in 1..n |-> Line("dom_y", i, 0, <<0, LUp(hs) - MinSeq(hs)>>, <<>>, <<>>)]
    \o << Line("dom_l", 0, 0, <<LLow(w, ws, hs), LUp(hs)>>, <<>>, <<>>) >>

NonOverlapLinesSwapped(n, ws, hs) ==
    [k \in 1..Len(Pairs(n)) |->
        LET i == Pairs(n)[k][1]
            j == Pairs(n)[k][2]
        IN  Line("no_overlap", i, j, <<ws[i], hs[i], ws[i], hs[j]>>, <<>>, <<>>)]

\* p = <<widths[i], heights[i], widths[j], heights[j]>>
NonOverlapLines(n, ws, hs) ==
    [k \in 1..Len(Pairs(n)) |->
        LET i == Pairs(n)[k][1]
            j == Pairs(n)[k][2]
        IN  Line("no_overlap", i, j, <<ws[i], hs[i], ws[j], hs[j]>>, <<>>, <<>>)]

\* p = <<widths[i], heights[i], W>>
BoundaryLines(w, n, ws, hs) ==
    [i \in 1..n |-> Line("boundary", i, 0, <<ws[i], hs[i], w>>, <<>>, <<>>)]

CumulativeLinesSumHeights(w, n, ws, hs) ==
       [k \in 1..Len(ws) |-> Line("cumul_y", 0, 0, <<ws[k], w>>, hs, hs)]
    \o [k \in 1..Len(hs) |-> Line("cumul_x", 0, 0, <<hs[k]>>, ws, hs)]

\* for w in widths: level w on the y axis, summed widths, capacity W
\* for h in heights: level h on the x axis, summed heights, capacity l
CumulativeLines(w, n, ws, hs) ==
       [k \in 1..Len(ws) |-> Line("cumul_y", 0, 0, <<ws[k], w>>, ws, hs)]
    \o [k \in 1..Len(hs) |-> Line("cumul_x", 0, 0, <<hs[k]>>, ws, hs)]

\* p = <<widths[i], widths[j], heights[i], heights[j]>>
SymmetrySameSizeLines(n, ws, hs) ==
    [k \in 1..Len(Pairs(n)) |->
        LET i == Pairs(n)[k][1]
            j == Pairs(n)[k][2]
        IN  Line("sym_same", i, j, <<ws[i], ws[j], hs[i], hs[j]>>, <<>>, <<>>)]

SymmetryMaxAreaLines(ws, hs) ==
    << Line("fix_x", MaxAreaInd(ws, hs), 0, <<0>>, <<>>, <<>>),
       Line("fix_y", MaxAreaInd(ws, hs), 0, <<0>>, <<>>, <<>>) >>

\* The assertions of the script, in the order they are appended to lines.
BuildLines(w, n, ws, hs) ==
       DomainLines(w, n, ws, hs)
    \o NonOverlapLines(n, ws, hs)
    \o BoundaryLines(w, n, ws, hs)
    \o CumulativeLines(w, n, ws, hs)
    \o SymmetrySameSizeLines(n, ws, hs)
    \o SymmetryMaxAreaLines(ws, hs)

\* ------------------------------------------------- SMT-LIB (LIA) semantics
\* (ite c v 0) summed over the items
RECURSIVE IteSum(_, _, _)
IteSum(n, cond, vals) ==
    IF n = 0 THEN 0
    ELSE (IF cond[n] THEN vals[n] ELSE 0) + IteSum(n - 1, cond, vals)

\* Truth of one assertion under the assignment a = [x, y, l].
Holds(ln, a) ==
    CASE ln.kind = "dom_x" -> a.x[ln.i] >= ln.p[1] /\ a.x[ln.i] <= ln.p[2]
      [] ln.kind = "dom_y" -> a.y[ln.i] >= ln.p[1] /\ a.y[ln.i] <= ln.p[2]
      [] ln.kind = "dom_l" -> a.l >= ln.p[1] /\ a.l <= ln.p[2]
      [] ln.kind = "no_overlap" ->
            \/ a.x[ln.i] + ln.p[1] <= a.x[ln.j]
            \/ a.y[ln.i] + ln.p[2] <= a.y[ln.j]
            \/ a.x[ln.i] - ln.p[3] >= a.x[ln.j]
            \/ a.y[ln.i] - ln.p[4] >= a.y[ln.j]
      [] ln.kind = "boundary" ->
            /\ a.x[ln.i] + ln.p[1] <= ln.p[3]
            /\ a.y[ln.i] + ln.p[2] <= a.l
      [] ln.kind = "cumul_y" ->
            IteSum(Len(ln.ws),
                   [k \in 1..Len(ln.ws) |->
                       a.y[k] <= ln.p[1] /\ ln.p[1] < a.y[k] + ln.hs[k]],
                   ln.ws) <= ln.p[2]
      [] ln.kind = "cumul_x" ->
            IteSum(Len(ln.ws),
                   [k \in 1..Len(ln.ws) |->
                       a.x[k] <= ln.p[1] /\ ln.p[1] < a.x[k] + ln.ws[k]],
                   ln.hs) <= a.l
      [] ln.kind = "sym_same" ->
            IF ln.p[1] = ln.p[2] /\ ln.p[3] = ln.p[4]
            THEN a.x[ln.i] <= a.x[ln.j] ELSE TRUE
      [] ln.kind = "fix_x" -> a.x[ln.i] = ln.p[1]
      [] ln.kind = "fix_y" -> a.y[ln.i] = ln.p[1]
      [] ln.kind = "fix_l" -> a.l = ln.p[1]

\* The last item an assertion names (the cumulative sums name them all).
LastItem(ln) ==
    IF ln.kind \in {"cumul_y", "cumul_x"} THEN Len(ln.ws)
    ELSE IF ln.i >= ln.j THEN ln.i ELSE ln.j

\* The largest of 0 and the numbers of s.
MaxOf(s) ==
    CHOOSE v \in {0} \cup {s[k] : k \in DOMAIN s} :
        \A k \in DOMAIN s : v >= s[k]

\* The integers the solver ranges over, cut to a window wider than every
\* number the script states.
IntWindow(ls) ==
    (0 - 1) .. (MaxOf([m \in 1..Len(ls) |-> MaxOf(ls[m].p)]) + 1)

\* The assertions over a single variable, and the values of the window that
\* satisfy all of those over variable v of item i.
UnaryOn(ln, v, i) ==
    \/ v = "x" /\ ln.kind \in {"dom_x", "fix_x"} /\ ln.i = i
    \/ v = "y" /\ ln.kind \in {"dom_y", "fix_y"} /\ ln.i = i
    \/ v = "l" /\ ln.kind \in {"dom_l", "fix_l"}

Candidates(ls, n, v, i) ==
    {val \in IntWindow(ls) :
        \A m \in 1..Len(ls) :
            UnaryOn(ls[m], v, i) =>
                Holds(ls[m], [x |-> [k \in 1..n |-> val],
                              y |-> [k \in 1..n |-> val], l |-> val])}

\* The assertions that name items up to k, and at least item k, all hold.
HoldUpTo(ls, k, a) ==
    \A m \in 1..Len(ls) : LastItem(ls[m]) = k => Holds(ls[m], a)

\* The assignments to l, coord_x1..k, coord_y1..k that satisfy every
\* assertion over these variables; ModelsUpTo(ls, n, n) is the set of models.
RECURSIVE ModelsUpTo(_, _, _)
ModelsUpTo(ls, n, k) ==
    IF k = 0
    THEN {[x |-> <<>>, y |-> <<>>, l |-> v] : v \in Candidates(ls, n, "l", 0)}
    ELSE LET prev == ModelsUpTo(ls, n, k - 1)
             cx == Candidates(ls, n, "x", k)
             cy == Candidates(ls, n, "y", k)
         IN  {b \in {[x |-> Append(a.x, vx), y |-> Append(a.y, vy), l |-> a.l] :
                        a \in prev, vx \in cx, vy \in cy} :
                HoldUpTo(ls, k, b)}

Models(ls, n) == ModelsUpTo(ls, n, n)

Without(ls, kinds) == SelectSeq(ls, LAMBDA ln : ln.kind \notin kinds)

SymmetryKinds == {"sym_same", "fix_x", "fix_y"}

CumulativeKinds == {"cumul_y", "cumul_x"}

\* The formula with the candidate height fixed: (assert (= l v)).
AtHeight(ls, v) == Append(ls, Line("fix_l", 0, 0, <<v>>, <<>>, <<>>))

\* The heights l for which the formula has a model.
FeasibleL(ls, n) == {a.l : a \in Models(ls, n)}

\* ------------------------------------------------------------- placements
NoOverlap(a, ws, hs, i, j) ==
    \/ a.x[i] + ws[i] <= a.x[j]
    \/ a.x[j] + ws[j] <= a.x[i]
    \/ a.y[i] + hs[i] <= a.y[j]
    \/ a.y[j] + hs[j] <= a.y[i]

ValidPlacement(a, w, n, ws, hs) ==
    /\ \A i \in 1..n :
          /\ 0 <= a.x[i] /\ a.x[i] + ws[i] <= w
          /\ 0 <= a.y[i] /\ a.y[i] + hs[i] <= a.l
    /\ \A i, j \in 1..n : i # j => NoOverlap(a, ws, hs, i, j)

\* ------------------------------------------------------------- MIP: types
\* StatusEnum and SOLUTION_ADMISSABLE (utils.types)
StatusEnum == {"OPTIMAL", "FEASIBLE", "NO_SOLUTION_FOUND", "ERROR", "INFEASIBLE"}

SOLUTION_ADMISSABLE(status) == status \in {"OPTIMAL", "FEASIBLE"}

\* None is the empty tuple, a value v the tuple <<v>>.
None == <<>>

Some(v) == <<v>>

\* Solution(): created empty
EmptySolution ==
    [input_name |-> None, width |-> None, n_circuits |-> None, circuits |-> None,
     status |-> None, solve_time |-> None, height |-> None,
     coords |-> None, rotation |-> None]

\* ---------------------------------------------------------- MIP: strings
\* A string is the sequence of its characters.
DigitChars == <<"0", "1", "2", "3", "4", "5", "6", "7", "8", "9">>

\* str(i) for i >= 0
RECURSIVE Digits(_)
Digits(i) ==
    IF i < 10 THEN <<DigitChars[i + 1]>>
    ELSE Append(Digits(i \div 10), DigitChars[(i % 10) + 1])

DigitValue(c) == (CHOOSE d \in 1..10 : DigitChars[d] = c) - 1

IsDigit(c) == \E d \in 1..10 : DigitChars[d] = c

\* int(s): a non-empty string of decimal digits, anything else is a ValueError
RECURSIVE IntValue(_)
IntValue(str) ==
    IF str = <<>> THEN 0
    ELSE 10 * IntValue(SubSeq(str, 1, Len(str) - 1)) + DigitValue(str[Len(str)])

ParseInt(str) ==
    IF str # <<>> /\ \A k \in 1..Len(str) : IsDigit(str[k])
    THEN [ok |-> TRUE, val |-> IntValue(str)]
    ELSE [ok |-> FALSE, val |-> 0]

\* name.startswith(prefix)
StartsWith(name, prefix) ==
    Len(name) >= Len(prefix) /\ SubSeq(name, 1, Len(prefix)) = prefix

\* name[k:]
SliceFrom(name, k) == SubSeq(name, k + 1, Len(name))

CoordX == <<"c", "o", "o", "r", "d", "_", "x">>

CoordY == <<"c", "o", "o", "r", "d", "_", "y">>

Rot == <<"r", "o", "t">>

\* round(v) of a float given in tenths: to nearest, ties to even
Round10(v) ==
    LET q == v \div 10
        r == v % 10
    IN  IF r < 5 THEN q
        ELSE IF r > 5 THEN q + 1
        ELSE IF q % 2 = 0 THEN q ELSE q + 1

\* ------------------------------------------------- MIP: the solved program
\* The variables of the encoded program, named coord_x{i}, coord_y{i} and,
\* in the rotation model, rot{i}, i = 0..n-1, plus the height l; values in
\* tenths.
VarName(prefix, i) == prefix \o Digits(i)

ProgramVariables(n, rotation, vx, vy, vr, vl) ==
       [k \in 1..n |-> [name |-> VarName(CoordX, k - 1), varValue |-> vx[k]]]
    \o [k \in 1..n |-> [name |-> VarName(CoordY, k - 1), varValue |-> vy[k]]]
    \o << [name |-> <<"l">>, varValue |-> vl] >>
    \o (IF rotation
        THEN [k \in 1..n |-> [name |-> VarName(Rot, k - 1), varValue |-> vr[k]]]
        ELSE <<>>)

\* The offsets at which the decoder cuts the index off a name.
CoordIndexOffset == 8
RotIndexOffset == 4

\* One pass of "for v in prob.variables()" over variable k. The lists hold
\* position p of the source at p + 1.
DecodeVariable(acc, v, n) ==
    LET isx == StartsWith(v.name, CoordX)
        isy == ~isx /\ StartsWith(v.name, CoordY)
        isr == ~isx /\ ~isy /\ StartsWith(v.name, Rot)
        idx == IF isr THEN ParseInt(SliceFrom(v.name, RotIndexOffset))
               ELSE ParseInt(SliceFrom(v.name, CoordIndexOffset))
    IN  IF ~(isx \/ isy \/ isr) THEN acc
        ELSE IF ~idx.ok THEN [acc EXCEPT !.exc = "ValueError"]
        ELSE IF idx.val >= n THEN [acc EXCEPT !.exc = "IndexError"]
        ELSE IF isx THEN [acc EXCEPT !.x[idx.val + 1] = Some(Round10(v.varValue))]
        ELSE IF isy THEN [acc EXCEPT !.y[idx.val + 1] = Some(Round10(v.varValue))]
        ELSE [acc EXCEPT !.rotation[idx.val + 1] = (Round10(v.varValue) # 0)]

RECURSIVE DecodeLoop(_, _, _, _)
DecodeLoop(acc, pvars, k, n) ==
    IF k > Len(pvars) \/ acc.exc # "none" THEN acc
    ELSE DecodeLoop(DecodeVariable(acc, pvars[k], n), pvars, k + 1, n)

\* run_mip_solver after prob.solve returned: status, time and, for an
\* admissible status, height, coords and rotation.
DecodeSolution(s0, p) ==
    LET s1 == [s0 EXCEPT !.status = Some(p.sol_status),
                         !.solve_time = Some(p.solutionTime)]
        acc == DecodeLoop([exc |-> "none",
                           x |-> [k \in 1..p.n |-> None],
                           y |-> [k \in 1..p.n |-> None],
                           rotation |-> [k \in 1..p.n |-> FALSE]],
                          p.variables, 1, p.n)
    IN  IF ~SOLUTION_ADMISSABLE(p.sol_status) THEN [exc |-> "none", sol |-> s1]
        ELSE IF acc.exc # "none"
             THEN [exc |-> acc.exc,
                   sol |-> [s1 EXCEPT !.height = Some(Round10(p.objective))]]
        ELSE [exc |-> "none",
              sol |-> [s1 EXCEPT !.height = Some(Round10(p.objective)),
                                 !.coords = Some([x |-> acc.x, y |-> acc.y]),
                                 !.rotation = IF p.n > 0 THEN Some(acc.rotation)
                                              ELSE None]]

\* ------------------------------------------------------ MIP: print_logging
Out(kind, text, nums) == [kind |-> kind, text |-> text, nums |-> nums]

StatusMessage(status) ==
    IF status = Some("FEASIBLE") THEN "A solution has been found, but not an optimal one"
    ELSE IF status = Some("OPTIMAL") THEN "Optimal solution has been found"
    ELSE IF status = Some("NO_SOLUTION_FOUND") THEN "No solution has been found"
    ELSE IF status = Some("ERROR") THEN "Error during execution"
    ELSE "Infeasible solution"

Admissible(s) == s.status # None /\ SOLUTION_ADMISSABLE(s.status[1])

\* the line of circuit i: its dimensions, swapped when rotated, and its corner
ItemLine(s, i) ==
    LET rotated == s.rotation # None /\ s.rotation[1] # <<>> /\ s.rotation[1][i]
        c == s.circuits[1][i]
    IN  Out("item", "",
            << IF rotated THEN c[2] ELSE c[1], IF rotated THEN c[1] ELSE c[2],
               s.coords[1].x[i][1], s.coords[1].y[i][1] >>)

\* What print_logging(solution) prints.
print_logging(s) ==
    << Out("status", StatusMessage(s.status), <<>>) >>
    \o (IF Admissible(s)
        THEN << Out("solved", "", <<s.width[1], s.height[1]>>),
                Out("time", "", <<s.solve_time[1]>>) >>
             \o [i \in 1..s.n_circuits[1] |-> ItemLine(s, i)]
        ELSE <<>>)

\* The parameters print_logging declares and the arguments compute_solution
\* passes to it.
PrintLoggingParams == 1
PrintLoggingArgs == 2

\* A call with the wrong number of positional arguments is a TypeError.
CallPrintLogging(s, nargs) ==
    IF nargs # PrintLoggingParams
    THEN [exc |-> "TypeError", printed |-> <<>>]
    ELSE [exc |-> "none", printed |-> print_logging(s)]

\* ----------------------------------------------------- MIP: run_mip_solver
\* The instance files hold one circuit of unit size per item; the solved
\* program places item k at (0, k-1).
InstanceProgram(e) ==
    [n |-> e.n, sol_status |-> e.backend, solutionTime |-> 0,
     objective |-> 10 * e.n,
     variables |-> ProgramVariables(e.n, model_type = "ROTATION",
                                    [k \in 1..e.n |-> 0],
                                    [k \in 1..e.n |-> 10 * (k - 1)],
                                    [k \in 1..e.n |-> 0], 10 * e.n)]

\* run_mip_solver(input_name, ...): the exception it lets escape, whether
\* prob.solve was called and raised, and the Solution returned.
RunMipSolver(i, e) ==
    LET s0 == [EmptySolution EXCEPT !.input_name = Some(i), !.width = Some(1),
                                    !.n_circuits = Some(e.n),
                                    !.circuits = Some([k \in 1..e.n |-> <<1, 1>>])]
    IN  IF e.file = "malformed"
        THEN [exc |-> "ParseError", solve |-> "not_called", sol |-> EmptySolution]
        ELSE IF e.build = "raises"
        THEN [exc |-> "ModelError", solve |-> "not_called", sol |-> s0]
        ELSE IF e.backend = "raises"
        THEN [exc |-> "none", solve |-> "raised",
              sol |-> [s0 EXCEPT !.status = Some("ERROR")]]
        ELSE LET d == DecodeSolution(s0, InstanceProgram(e))
             IN  [exc |-> d.exc, solve |-> "returned", sol |-> d.sol]

\* run_minizinc: a Solution with the backend's status
RunMinizinc(i, e) ==
    IF e.file = "malformed"
    THEN [exc |-> "ParseError", solve |-> "not_called", sol |-> EmptySolution]
    ELSE [exc |-> "none",
          solve |-> "minizinc",
          sol |-> [EmptySolution EXCEPT
                      !.input_name = Some(i),
                      !.status = Some(IF e.backend = "raises" THEN "ERROR"
                                      ELSE e.backend)]]

\* compute_solution: solve, print_logging(sol, verbose), plot_solution
ComputeSolution(i, e) ==
    LET r == IF solver = "MINIZINC" THEN RunMinizinc(i, e) ELSE RunMipSolver(i, e)
        pl == CallPrintLogging(r.sol, PrintLoggingArgs)
    IN  IF r.exc # "none"
        THEN [exc |-> r.exc, solve |-> r.solve, sol |-> r.sol, printed |-> <<>>]
        ELSE [exc |-> pl.exc, solve |-> r.solve, sol |-> r.sol, printed |-> pl.printed]

MipIdle ==
    /\ test_iterator = <<>>
    /\ env = <<>>
    /\ solver = "CPLEX"
    /\ model_type = "BASE"
    /\ statistics = <<>>
    /\ stdout = <<>>
    /\ mip_pc = "idle"
    /\ exception = "none"
    /\ sol = EmptySolution
    /\ prob = <<>>
    /\ solved = <<>>

OmtIdle ==
    /\ lo = 0
    /\ hi = 0
    /\ best = None
    /\ elapsed = 0
    /\ omt_pc = "idle"

SmtIdle ==
    /\ W = 1
    /\ N = 0
    /\ widths = <<>>
    /\ heights = <<>>
    /\ lines = <<>>
    /\ smt_pc = "idle"
    /\ smt_model = [x |-> <<>>, y |-> <<>>, l |-> 0]

\* ------------------------------------------------------ MIP: compute_tests
BackendOutcomes == {"raises", "OPTIMAL", "FEASIBLE", "NO_SOLUTION_FOUND", "INFEASIBLE"}

\* What the environment holds for one instance: its file, whether the model
\* builds, what the backend does, and the number of circuits.
Environments ==
    [file : {"ok", "malformed"}, build : {"ok", "raises"},
     backend : BackendOutcomes, n : 1..MaxN]

\* checking_instances((first, last)): the instances first..last in order
Batches ==
    {[k \in 1..(b - a + 1) |-> a + k - 1] : a \in 1..MaxInstances, b \in 1..MaxInstances}
        \ {<<>>}

InitBatch ==
    /\ SmtIdle
    /\ OmtIdle
    /\ test_iterator \in Batches
    /\ env \in [1..MaxInstances -> Environments]
    /\ solver \in {"CPLEX", "MOSEK", "MINIZINC"}
    /\ model_type \in {"BASE", "ROTATION"}
    /\ statistics = <<>>
    /\ stdout = <<>>
    /\ mip_pc = "running"
    /\ exception = "none"
    /\ sol = EmptySolution
    /\ prob = <<>>
    /\ solved = <<>>

\* One iteration of "for i in test_iterator": compute_solution, then
\* save_statistics and the summary line. An exception ends compute_tests.
compute_tests ==
    /\ mip_pc = "running"
    /\ test_iterator # <<>>
    /\ LET i == Head(test_iterator)
           r == ComputeSolution(i, env[i])
       IN  /\ solved' = IF r.solve = "not_called" THEN solved
                        ELSE Append(solved, [inst |-> i, solve |-> r.solve])
           /\ IF r.exc # "none"
              THEN /\ mip_pc' = "raised"
                   /\ exception' = r.exc
                   /\ stdout' = stdout \o r.printed
                   /\ UNCHANGED <<test_iterator, statistics, sol>>
              ELSE /\ sol' = r.sol
                   /\ statistics' = Append(statistics,
                                           [input_name |-> i, status |-> r.sol.status[1]])
                   /\ stdout' = stdout \o r.printed
                                \o << Out("computed", r.sol.status[1],
                                          IF Admissible(r.sol)
                                          THEN <<i, r.sol.solve_time[1]>> ELSE <<i>>) >>
                   /\ test_iterator' = Tail(test_iterator)
                   /\ mip_pc' = IF Tail(test_iterator) = <<>> THEN "done" ELSE "running"
                   /\ UNCHANGED exception
    /\ UNCHANGED <<env, solver, model_type, prob, smt_vars, omt_vars>>

NextBatch == compute_tests

SpecBatch == InitBatch /\ [][NextBatch]_vars

\* C4: an exception raised by prob.solve becomes a Solution of status ERROR,
\* does not end the batch, and the instance gets its statistics record, in
\* the order of the instances.
C4_SolverErrorContained ==
    \A k \in 1..Len(solved) :
        solved[k].solve = "raised" =>
            /\ mip_pc # "raised"
            /\ Len(statistics) >= k
            /\ statistics[k] = [input_name |-> solved[k].inst, status |-> "ERROR"]

\* C5: a fatal failure of one instance (its file does not parse, its model
\* does not build) leaves no later instance of the batch unprocessed.
C5_BatchIsolated ==
    ~ /\ mip_pc = "raised"
      /\ exception \in {"ParseError", "ModelError"}
      /\ Len(test_iterator) > 1

\* ------------------------------------------------------------ MIP: reporter
\* The Solutions run_mip_solver returns: populated when the status is
\* admissible, without time for ERROR.
SolutionsOf(n) ==
    {[EmptySolution EXCEPT
        !.input_name = Some(1), !.width = Some(MaxDim), !.n_circuits = Some(n),
        !.circuits = Some(cs), !.status = Some(st),
        !.solve_time = IF st = "ERROR" THEN None ELSE Some(t),
        !.height = IF SOLUTION_ADMISSABLE(st) THEN Some(MaxDim) ELSE None,
        !.coords = IF SOLUTION_ADMISSABLE(st)
                   THEN Some([x |-> [k \in 1..n |-> Some(xy[k][1])],
                              y |-> [k \in 1..n |-> Some(xy[k][2])]])
                   ELSE None,
        !.rotation = IF SOLUTION_ADMISSABLE(st) THEN rt ELSE None] :
        st \in StatusEnum, t \in 0..MaxTime,
        cs \in [1..n -> (1..MaxDim) \X (1..MaxDim)],
        xy \in [1..n -> (0..1) \X (0..1)],
        rt \in {None} \cup {Some(f) : f \in [1..n -> BOOLEAN]}}

Solutions == UNION {SolutionsOf(n) : n \in 1..MaxN}

InitReport ==
    /\ SmtIdle
    /\ OmtIdle
    /\ sol \in Solutions
    /\ test_iterator = <<>>
    /\ env = <<>>
    /\ solver = "CPLEX"
    /\ model_type = "BASE"
    /\ statistics = <<>>
    /\ stdout = <<>>
    /\ mip_pc = "report"
    /\ exception = "none"
    /\ prob = <<>>
    /\ solved = <<>>

\* print_logging(solution)
report ==
    /\ mip_pc = "report"
    /\ LET r == CallPrintLogging(sol, PrintLoggingParams)
       IN  /\ stdout' = stdout \o r.printed
           /\ exception' = r.exc
           /\ mip_pc' = IF r.exc = "none" THEN "printed" ELSE "raised"
    /\ UNCHANGED <<test_iterator, env, solver, model_type, statistics, sol, prob,
                   solved, smt_vars, omt_vars>>

NextReport == report

SpecReport == InitReport /\ [][NextReport]_vars

Printed(kind) == \E k \in 1..Len(stdout) : stdout[k].kind = kind

\* C6: for every status the reporter prints the status message and the solve
\* time; the per-item geometry lines are printed exactly when the status is
\* admissible.
C6_StatusAndTimeAlways ==
    mip_pc = "printed" =>
        /\ \E k \in 1..Len(stdout) :
              stdout[k].kind = "status" /\ stdout[k].text = StatusMessage(sol.status)
        /\ Printed("time")
        /\ Printed("item") <=> Admissible(sol)

\* --------------------------------------------------------- MIP: the decoder
\* Values in tenths, near an integer.
Noise == {0 - 4, 0, 4, 5, 6}

Programs ==
    {[n |-> n, sol_status |-> st, solutionTime |-> 0, objective |-> 10 * n + e,
      rotation |-> rot,
      variables |-> ProgramVariables(n, rot,
                                     [k \in 1..n |-> 10 * (k - 1) + e],
                                     [k \in 1..n |-> 20 * (k - 1) + e],
                                     [k \in 1..n |-> 10 * (k % 2)], 10 * n + e)] :
        n \in 1..MaxVars, st \in BackendOutcomes \ {"raises"},
        rot \in BOOLEAN, e \in Noise}

InitDecode ==
    /\ SmtIdle
    /\ OmtIdle
    /\ prob \in Programs
    /\ test_iterator = <<>>
    /\ env = <<>>
    /\ solver = "CPLEX"
    /\ model_type = IF prob.rotation THEN "ROTATION" ELSE "BASE"
    /\ statistics = <<>>
    /\ stdout = <<>>
    /\ mip_pc = "solved"
    /\ exception = "none"
    /\ sol = [EmptySolution EXCEPT !.input_name = Some(1), !.n_circuits = Some(prob.n)]
    /\ solved = <<>>

\* run_mip_solver from "sol.status = StatusEnum(prob.sol_status)" on
run_mip_solver ==
    /\ mip_pc = "solved"
    /\ LET d == DecodeSolution(sol, prob)
       IN  /\ sol' = d.sol
           /\ exception' = d.exc
           /\ mip_pc' = IF d.exc = "none" THEN "returned" ELSE "raised"
    /\ UNCHANGED <<test_iterator, env, solver, model_type, statistics, stdout, prob,
                   solved, smt_vars, omt_vars>>

NextDecode == run_mip_solver

SpecDecode == InitDecode /\ [][NextDecode]_vars

ValueOf(name) ==
    LET k == CHOOSE m \in 1..Len(prob.variables) : prob.variables[m].name = name
    IN  prob.variables[k].varValue

\* C7: when the status is admissible the decoder returns with coords["x"][i]
\* and coords["y"][i] the rounded values of coord_x{i} and coord_y{i}, no
\* entry None, rotation[i] the rounded rot{i}, and the height set.
C7_DecodeByIndex ==
    (mip_pc \in {"returned", "raised"} /\ SOLUTION_ADMISSABLE(prob.sol_status)) =>
        /\ mip_pc = "returned"
        /\ sol.height # None
        /\ sol.coords # None
        /\ \A i \in 0..(prob.n - 1) :
              /\ sol.coords[1].x[i + 1] = Some(Round10(ValueOf(VarName(CoordX, i))))
              /\ sol.coords[1].y[i + 1] = Some(Round10(ValueOf(VarName(CoordY, i))))
              /\ prob.rotation =>
                    sol.rotation[1][i + 1] = (Round10(ValueOf(VarName(Rot, i))) # 0)

\* --------------------------------------------------------- SMT encoder run
NoModel == [x |-> <<>>, y |-> <<>>, l |-> 0]

Instances ==
    {[W |-> w, N |-> n, widths |-> ws, heights |-> hs] :
        w \in 1..MaxW, n \in 1..MaxN,
        ws \in UNION {[1..m -> 1..MaxDim] : m \in 1..MaxN},
        hs \in UNION {[1..m -> 1..MaxDim] : m \in 1..MaxN}}

InitSMT ==
    /\ \E inst \in Instances :
          /\ Len(inst.widths) = inst.N /\ Len(inst.heights) = inst.N
          /\ W = inst.W /\ N = inst.N
          /\ widths = inst.widths /\ heights = inst.heights
    /\ lines = <<>>
    /\ smt_pc = "input"
    /\ smt_model = NoModel
    /\ MipIdle
    /\ OmtIdle

build_SMTLIB_model ==
    /\ smt_pc = "input"
    /\ lines' = BuildLines(W, N, widths, heights)
    /\ smt_pc' = "built"
    /\ UNCHANGED <<W, N, widths, heights, smt_model, mip_vars, omt_vars>>

\* (check-sat) (get-model): sat with any model of the assertions
check_sat ==
    /\ smt_pc = "built"
    /\ \E a \in Models(lines, N) : smt_model' = a
    /\ smt_pc' = "sat"
    /\ UNCHANGED <<W, N, widths, heights, lines, mip_vars, omt_vars>>

\* (check-sat): unsat when the assertions have no model
check_unsat ==
    /\ smt_pc = "built"
    /\ Models(lines, N) = {}
    /\ smt_pc' = "unsat"
    /\ UNCHANGED <<W, N, widths, heights, lines, smt_model, mip_vars, omt_vars>>

NextSMT == build_SMTLIB_model \/ check_sat \/ check_unsat

SpecSMT == InitSMT /\ [][NextSMT]_vars

ValidInstance == N >= 1 /\ \A i \in 1..N : widths[i] <= W

\* C1: every model of the generated assertions is a valid placement: each
\* item lies inside [0,W] x [0,l] and no two items overlap.
C1_Sound ==
    smt_pc = "sat" => ValidPlacement(smt_model, W, N, widths, heights)

C1_Witness ==
    /\ smt_pc = "sat" /\ N = 2
    /\ smt_model.x[1] # smt_model.x[2]
    /\ smt_model.y[1] # smt_model.y[2]

\* C3: the cumulative assertions do not change the set of models.
C3_CumulativeRedundant ==
    (smt_pc = "built" /\ ValidInstance)
        => Models(lines, N) = Models(Without(lines, CumulativeKinds), N)

\* a model in which two items cross the same level of a cumulative sum
C3_Witness ==
    /\ smt_pc = "sat" /\ N = 2
    /\ \E k \in 1..N : \A i \in 1..N :
          smt_model.y[i] <= widths[k] /\ widths[k] < smt_model.y[i] + heights[i]

\* C9: with a single item the formula has exactly one model,
\* coord_x0 = 0, coord_y0 = 0, l = heights[0].
C9_SingleItem ==
    (smt_pc = "built" /\ N = 1 /\ widths[1] <= W)
        => Models(lines, N) = {[x |-> <<0>>, y |-> <<0>>, l |-> heights[1]]}

C9_Witness ==
    /\ smt_pc = "sat" /\ N = 1
    /\ smt_model = [x |-> <<0>>, y |-> <<0>>, l |-> heights[1]]

\* C10: for a valid instance l_low <= l_up and the whole formula has a model
\* with l = l_up; when some width exceeds W the formula has no model.
C10_Window ==
    smt_pc = "built" =>
        IF ValidInstance
        THEN /\ LLow(W, widths, heights) <= LUp(heights)
             /\ LUp(heights) \in FeasibleL(lines, N)
        ELSE Models(lines, N) = {}

C10_Witness ==
    /\ smt_pc = "sat" /\ N = 2
    /\ smt_model.l = LUp(heights)
    /\ LLow(W, widths, heights) < LUp(heights)

\* ------------------------------------------ instances of five-circuit chips
\* Chips of PinwheelN circuits drawn from three shapes (width, height), on a
\* strip of width PinwheelW; the solver is asked for a model at one of the
\* lowest heights of the window.
Shapes == {<<2, 2>>, <<1, 3>>, <<3, 1>>}

InitSym ==
    /\ \E chip \in [1..PinwheelN -> Shapes] :
          /\ widths = [k \in 1..PinwheelN |-> chip[k][1]]
          /\ heights = [k \in 1..PinwheelN |-> chip[k][2]]
    /\ W = PinwheelW
    /\ N = PinwheelN
    /\ lines = <<>>
    /\ smt_pc = "input"
    /\ smt_model = NoModel
    /\ MipIdle
    /\ OmtIdle

LowHeights ==
    {v \in LLow(W, widths, heights) .. LUp(heights) :
        v <= LLow(W, widths, heights) + PinwheelSlack}

\* (check-sat) with l fixed to a candidate height: sat
check_sat_at ==
    /\ smt_pc = "built"
    /\ \E v \in LowHeights : \E a \in Models(AtHeight(lines, v), N) : smt_model' = a
    /\ smt_pc' = "sat"
    /\ UNCHANGED <<W, N, widths, heights, lines, mip_vars, omt_vars>>

\* (check-sat) with l fixed to a candidate height: unsat
check_unsat_at ==
    /\ smt_pc = "built"
    /\ \E v \in LowHeights :
          /\ Models(AtHeight(lines, v), N) = {}
          /\ smt_model' = [NoModel EXCEPT !.l = v]
    /\ smt_pc' = "unsat"
    /\ UNCHANGED <<W, N, widths, heights, lines, mip_vars, omt_vars>>

NextSym == build_SMTLIB_model \/ check_sat_at \/ check_unsat_at

SpecSym == InitSym /\ [][NextSym]_vars

\* C2: the symmetry-breaking assertions do not change feasibility: for every
\* height l of the window the formula has a model with that l exactly when
\* the formula without the symmetry-breaking assertions has one.
C2_SymmetryKeepsFeasibility ==
    (smt_pc = "built" /\ ValidInstance) =>
        \A v \in LowHeights :
            (Models(AtHeight(lines, v), N) # {})
                <=> (Models(AtHeight(Without(lines, SymmetryKinds), v), N) # {})

\* ------------------------------------------------------------- OMT driver
\* The formula with the window on l tightened to [a, b].
Window(ls, a, b) == Append(ls, Line("dom_l", 0, 0, <<a, b>>, <<>>, <<>>))

\* The upper end of the next query: the midpoint (binary search) or the
\* whole window (linear search).
QueryUppers(a, b) == {(a + b) \div 2, b}

MainResultInverted(solution) == IF solution = None THEN "printed" ELSE "exit1"

\* __main__: prints the minimum found when the solution is not empty, else
\* "Something goes wrong" and exit status 1.
MainResult(solution) == IF solution # None THEN "printed" ELSE "exit1"

InitOMT ==
    /\ \E inst \in Instances :
          /\ Len(inst.widths) = inst.N /\ Len(inst.heights) = inst.N
          /\ W = inst.W /\ N = inst.N
          /\ widths = inst.widths /\ heights = inst.heights
    /\ lines = <<>>
    /\ smt_pc = "input"
    /\ smt_model = NoModel
    /\ MipIdle
    /\ OmtIdle

\* solver.add(formula); offline_omt(solver, l_low, sum(heights), timeout, ...)
offline_omt ==
    /\ smt_pc = "built"
    /\ omt_pc = "idle"
    /\ lo' = LLow(W, widths, heights)
    /\ hi' = SumSeq(heights)
    /\ best' = None
    /\ elapsed' = 0
    /\ omt_pc' = "search"
    /\ UNCHANGED <<smt_vars, mip_vars>>

Searching == omt_pc = "search" /\ lo <= hi /\ elapsed < MaxTimeout

\* a query answered sat: the model is the best known, the window closes below it
omt_sat ==
    /\ Searching
    /\ \E m \in QueryUppers(lo, hi), dt \in 0..1 :
          \E a \in Models(Window(lines, lo, m), N) :
              /\ best' = Some(a)
              /\ hi' = a.l - 1
              /\ elapsed' = elapsed + dt
    /\ UNCHANGED <<lo, omt_pc, smt_vars, mip_vars>>

\* a query answered unsat: the window opens above the queried part
omt_unsat ==
    /\ Searching
    /\ \E m \in QueryUppers(lo, hi), dt \in 0..1 :
          /\ Models(Window(lines, lo, m), N) = {}
          /\ lo' = m + 1
          /\ elapsed' = elapsed + dt
    /\ UNCHANGED <<hi, best, omt_pc, smt_vars, mip_vars>>

\* a query that runs out of the remaining budget: unknown
omt_unknown ==
    /\ Searching
    /\ elapsed' = MaxTimeout
    /\ UNCHANGED <<lo, hi, best, omt_pc, smt_vars, mip_vars>>

\* the loop is over: offline_omt returns and __main__ reports
main_result ==
    /\ omt_pc = "search"
    /\ ~Searching
    /\ omt_pc' = MainResult(best)
    /\ UNCHANGED <<lo, hi, best, elapsed, smt_vars, mip_vars>>

NextOMT ==
    \/ build_SMTLIB_model
    \/ offline_omt
    \/ omt_sat
    \/ omt_unsat
    \/ omt_unknown
    \/ main_result

SpecOMT == InitOMT /\ [][NextOMT]_vars /\ WF_vars(NextOMT)

OmtStepMonotone ==
    omt_pc = "search" =>
        /\ lo' >= lo
        /\ best # None => (best' # None /\ best'[1].l <= best[1].l)
        /\ (omt_pc' = "search" /\ elapsed' < MaxTimeout)
              => (hi' - lo' < hi - lo /\ (lo' > lo \/ hi' < hi))

OmtResult ==
    /\ omt_pc = "printed" =>
          (best # None /\ best[1] \in Models(lines, N))
    /\ omt_pc = "exit1" => best = None
    /\ omt_pc \in {"printed", "exit1"} => (lo > hi \/ elapsed >= MaxTimeout)

====
